---- MODULE Spec2Model ----
(***************************************************************************)
(* Model of the flash-card pipeline of src/core.py: the seven extraction   *)
(* strategies (ProcessTextInput .. ProcessUserBackground), the dispatcher  *)
(* (ContentProcessorFactory), the card generator (FlashCardGenerator) and  *)
(* the facade (FlashCardService.generate_from_input).                      *)
(* The card count of the service comes from the prompt of src/app.py.      *)
(* Spec is one request after another on one service; SpecConcurrent is two *)
(* requests in flight at once.                                             *)
(*                                                                         *)
(* Representation of Python values                                         *)
(*   - a text (typed text, OCR result, transcript, page text, markdown,    *)
(*     essay) is the sequence of its code points, so that str.split() and  *)
(*     str.join() are computed on characters;                              *)
(*   - a path, a link, a topic, an input-kind tag and the body of a        *)
(*     generation response are TLA+ strings;                               *)
(*   - every other Python value is a record tagged with its type in py.    *)
(***************************************************************************)
EXTENDS Integers, Sequences, FiniteSets, TLC

VARIABLES
    pc,          \* position of the request inside generate_from_input
    num_cards_input,  \* what the user typed at the application's prompt
    num_cards,   \* FlashCardService.generator.num_cards
    input_type,  \* generate_from_input's input_type argument
    kwargs,      \* generate_from_input's **kwargs
    processor,   \* the strategy object create_processor returned
    ext,         \* what the strategy's external collaborator answered
    content,     \* the value process_content returned to the facade
    gen,         \* what the generation service answered
    calls,       \* the external collaborators called in this request, in order
    yields,      \* how many times the request suspended at an await
    result,      \* the value generate_from_input returned
    error,       \* the exception generate_from_input raised
    api_key,     \* the module attribute fireworks.client.api_key
    requests,    \* the requests running concurrently, each with its own state
    services     \* the card count of each service the concurrent requests use

vars == <<pc, num_cards_input, num_cards, input_type, kwargs, processor, ext, content, gen,
          calls, yields, result, error, api_key, requests, services>>

-----------------------------------------------------------------------------
(* Bounds of the model and constants of the program.                       *)

\* Word counts are explored this far on either side of each limit.
Slack == 1
\* Largest number of pages of a generated PDF document.
MaxPages == 3
\* Largest card count a service is constructed with.
MaxCards == 6

TEXT_MIN_LENGTH == 30
TEXT_MAX_LENGTH == 2000
SHORT_MIN_WORDS == 10
LONG_MAX_WORDS == 2000
PDF_MAX_WORDS == 4000
DEFAULT_NUM_CARDS == 5

-----------------------------------------------------------------------------
(* Python values, returns and exceptions.                                  *)

PyNone == [py |-> "NoneType"]
PyStr(s) == [py |-> "str", v |-> s]
PyInt(n) == [py |-> "int", v |-> n]
PyBool(b) == [py |-> "bool", v |-> b]
PyList(l) == [py |-> "list", v |-> l]
\* A dict is the sequence of its <<key, value>> items, keys distinct.
PyDict(items) == [py |-> "dict", v |-> items]

\* Python's truth value of x, as used by `assert x`, `if x` and `not x`.
Truthy(x) ==
    CASE x.py = "NoneType" -> FALSE
      [] x.py = "bool" -> x.v
      [] x.py = "int" -> x.v # 0
      [] x.py \in {"str", "list", "dict"} -> Len(x.v) # 0
      [] OTHER -> TRUE

Exc(type, msg, arg) == [type |-> type, msg |-> msg, arg |-> arg]
NoExc == Exc("", "", "")

Return(v) == [tag |-> "return", val |-> v, exc |-> NoExc]
Raise(e) == [tag |-> "raise", val |-> PyNone, exc |-> e]

-----------------------------------------------------------------------------
(* str.split(), str.join(), slicing, startswith, endswith.                 *)

\* The characters str.split() separates words at.
IsSpace(c) == c \in {9, 10, 11, 12, 13, 28, 29, 30, 31, 32}

Indices(s) == [i \in 1..Len(s) |-> i]

\* s.split(): the maximal runs of non-space characters of s, in order.
SplitOf(s) ==
    LET first == SelectSeq(Indices(s),
                     LAMBDA i : ~IsSpace(s[i]) /\ (i = 1 \/ IsSpace(s[i - 1])))
        last  == SelectSeq(Indices(s),
                     LAMBDA i : ~IsSpace(s[i]) /\ (i = Len(s) \/ IsSpace(s[i + 1])))
    IN  [k \in 1..Len(first) |-> SubSeq(s, first[k], last[k])]
\* SplitOf on the value of s, evaluated once.
Split(s) == CHOOSE words \in {SplitOf(text) : text \in {s}} : TRUE

\* len(s.split())
WordCount(s) == Len(Split(s))

RECURSIVE JoinRange(_, _, _, _)
JoinRange(sep, parts, lo, hi) ==
    IF lo > hi THEN <<>>
    ELSE IF lo = hi THEN parts[lo]
    ELSE LET mid == (lo + hi) \div 2
         IN  JoinRange(sep, parts, lo, mid) \o sep \o JoinRange(sep, parts, mid + 1, hi)

\* sep.join(parts)
Join(sep, parts) ==
    CHOOSE joined \in {JoinRange(sep, p, 1, Len(p)) : p \in {parts}} : TRUE

\* seq[:n]
Take(seq, n) == SubSeq(seq, 1, IF Len(seq) < n THEN Len(seq) ELSE n)

\* s.endswith(suffix) and s.startswith(prefix)
EndsWith(s, suffix) ==
    Len(s) >= Len(suffix) /\ SubSeq(s, Len(s) - Len(suffix) + 1, Len(s)) = suffix
StartsWith(s, prefix) ==
    Len(s) >= Len(prefix) /\ SubSeq(s, 1, Len(prefix)) = prefix

-----------------------------------------------------------------------------
(* The exceptions the code raises.                                         *)

AssertionError(msg) == Exc("AssertionError", msg, "")
ValueError(msg) == Exc("ValueError", msg, "")
TooShort == ValueError("Text input is too short. Please provide a longer text.")
TooLong == ValueError("Text input is too long. Please provide a shorter text.")
NotEnglish ==
    ValueError("Audio input is not in English. Please provide an English audio file.")
\* `return combined_text` with combined_text never assigned
UnboundLocalError == Exc("UnboundLocalError", "combined_text", "")

-----------------------------------------------------------------------------
(* The files the process can see: os.path.exists(path).                    *)

ExistingPaths ==
    {"notes.png", "notes.jpeg", "notes.jpg", "notes.gif", "notes.png.bak",
     "talk.mp3", "talk.wav", "talk.ogg", "doc.pdf", "doc.txt"}
PathExists(path) == path \in ExistingPaths

-----------------------------------------------------------------------------
(* Extraction strategies: constructors.                                    *)

\* ProcessTextInput.__init__
TextInit(text) ==
    IF ~Truthy(PyStr(text)) THEN Raise(AssertionError("Text input cannot be empty."))
    ELSE Return([cls |-> "ProcessTextInput", text |-> text])

\* ImageInit without the check of the extension.
ImageInitAnyExtension(image_path) ==
    IF ~PathExists(image_path)
    THEN Raise(AssertionError("Image path does not exist."))
    ELSE Return([cls |-> "ProcessImageInput", image_path |-> image_path,
                 extension |-> IF EndsWith(image_path, ".png") THEN "png" ELSE "jpeg"])

\* ProcessImageInput.__init__
ImageInit(image_path) ==
    IF ~PathExists(image_path)
    THEN Raise(AssertionError("Image path does not exist."))
    ELSE IF ~(EndsWith(image_path, ".png") \/ EndsWith(image_path, ".jpeg"))
    THEN Raise(AssertionError("Image path must be a .png, or .jpeg file."))
    ELSE Return([cls |-> "ProcessImageInput", image_path |-> image_path,
                 extension |-> IF EndsWith(image_path, ".png") THEN "png" ELSE "jpeg"])

\* ProcessAudioInput.__init__
AudioInit(audio_path) ==
    IF ~PathExists(audio_path)
    THEN Raise(AssertionError("Audio path does not exist."))
    ELSE IF ~(EndsWith(audio_path, ".mp3") \/ EndsWith(audio_path, ".wav"))
    THEN Raise(AssertionError("Audio path must be a .mp3, or .wav file."))
    ELSE Return([cls |-> "ProcessAudioInput", audio_path |-> audio_path])

\* ProcessPDF.__init__
PdfInit(pdf_path) ==
    IF ~PathExists(pdf_path)
    THEN Raise(AssertionError("PDF path does not exist."))
    ELSE IF ~EndsWith(pdf_path, ".pdf")
    THEN Raise(AssertionError("PDF path must be a .pdf file."))
    ELSE Return([cls |-> "ProcessPDF", pdf_path |-> pdf_path])

\* ProcessLink.__init__
LinkInit(link) ==
    IF ~StartsWith(link, "http")
    THEN Raise(AssertionError("Link must start with http."))
    ELSE Return([cls |-> "ProcessLink", link |-> link])

\* ProcessTopic.__init__
TopicInit(topic) ==
    IF topic = "" THEN Raise(AssertionError("Topic cannot be empty."))
    ELSE Return([cls |-> "ProcessTopic", topic |-> topic])

\* ProcessUserBackground.__init__
UserBackgroundInit(user_bio) ==
    Return([cls |-> "ProcessUserBackground", user_bio |-> user_bio])

-----------------------------------------------------------------------------
(* Extraction strategies: _process, given the collaborator's answer.       *)

\* TextProcess rejecting a text of exactly min_length words.
TextProcessStrictMinimum(self, min_length, max_length) ==
    IF WordCount(self.text) <= min_length THEN Raise(TooShort)
    ELSE IF WordCount(self.text) > max_length THEN Raise(TooLong)
    ELSE Return(PyStr(self.text))

\* ProcessTextInput._process(min_length, max_length)
TextProcess(self, min_length, max_length) ==
    IF WordCount(self.text) < min_length THEN Raise(TooShort)
    ELSE IF WordCount(self.text) > max_length THEN Raise(TooLong)
    ELSE Return(PyStr(self.text))

\* ProcessImageInput._process, text the OCR answer
ImageProcess(text) ==
    IF WordCount(text) < SHORT_MIN_WORDS THEN Raise(TooShort)
    ELSE Return(PyStr(text))

\* AudioProcess without the check of the language.
AudioProcessAnyLanguage(transcript) ==
    IF WordCount(transcript.text) < SHORT_MIN_WORDS THEN Raise(TooShort)
    ELSE Return(PyStr(transcript.text))

\* ProcessAudioInput._process, transcript the transcription model's answer
AudioProcess(transcript) ==
    IF WordCount(transcript.text) < SHORT_MIN_WORDS THEN Raise(TooShort)
    ELSE IF transcript.language # "en" THEN Raise(NotEnglish)
    ELSE Return(PyStr(transcript.text))

\* PdfProcess keeping one word too many.
PdfProcessSliceOffByOne(page_content) ==
    IF Len(page_content) = 1 /\ WordCount(page_content[1]) < SHORT_MIN_WORDS
    THEN Raise(TooShort)
    ELSE IF Len(page_content) > 1
    THEN LET combined_text == Join(<<>>, page_content)
         IN  IF WordCount(combined_text) > PDF_MAX_WORDS
             THEN Return(PyStr(Join(<<32>>,
                                    Take(Split(combined_text), PDF_MAX_WORDS + 1))))
             ELSE Return(PyStr(combined_text))
    ELSE Raise(UnboundLocalError)

\* ProcessPDF._process, page_content the texts of the pages pymupdf yields
PdfProcess(page_content) ==
    IF Len(page_content) = 1 /\ WordCount(page_content[1]) < SHORT_MIN_WORDS
    THEN Raise(TooShort)
    ELSE IF Len(page_content) > 1
    THEN LET combined_text == Join(<<>>, page_content)
         IN  IF WordCount(combined_text) > PDF_MAX_WORDS
             THEN Return(PyStr(Join(<<32>>, Take(Split(combined_text), PDF_MAX_WORDS))))
             ELSE Return(PyStr(combined_text))
    ELSE Raise(UnboundLocalError)

\* ProcessLink._process, crawled the list crawler.arun_many answered
LinkProcess(crawled) ==
    IF Len(crawled) = 0 THEN Return(PyNone)
    ELSE LET res == crawled[1]
         IN  Return(PyList(IF res.success THEN <<res.markdown>> ELSE <<>>))

\* EssayProcess rejecting an essay of exactly 2000 words.
EssayProcessStrictMaximum(text) ==
    IF WordCount(text) < SHORT_MIN_WORDS THEN Raise(TooShort)
    ELSE IF WordCount(text) >= LONG_MAX_WORDS THEN Raise(TooLong)
    ELSE Return(PyStr(text))

\* ProcessTopic._process and ProcessUserBackground._process, text the essay
EssayProcess(text) ==
    IF WordCount(text) < SHORT_MIN_WORDS THEN Raise(TooShort)
    ELSE IF WordCount(text) > LONG_MAX_WORDS THEN Raise(TooLong)
    ELSE Return(PyStr(text))
TopicProcess(text) == EssayProcess(text)
UserBackgroundProcess(text) == EssayProcess(text)

-----------------------------------------------------------------------------
(* json.loads on the JSON texts built from objects, arrays, strings        *)
(* without escapes, integers, true, false and null.                        *)

\* The character of s at position i, "" past its end.
Ch(s, i) == IF 1 <= i /\ i <= Len(s) THEN SubSeq(s, i, i) ELSE ""

Digits == "0123456789"
IsDigit(c) == \E d \in 1..10 : c = SubSeq(Digits, d, d)
DigitValue(c) == (CHOOSE d \in 1..10 : c = SubSeq(Digits, d, d)) - 1

RECURSIVE SkipWs(_, _)
SkipWs(s, i) == IF Ch(s, i) \in {" ", "\t", "\n", "\r"} THEN SkipWs(s, i + 1) ELSE i

ParseFail == [ok |-> FALSE, val |-> PyNone, pos |-> 0]
ParseOk(v, p) == [ok |-> TRUE, val |-> v, pos |-> p]

\* Position of the quote closing the string whose body starts at i, 0 if none.
RECURSIVE ClosingQuote(_, _)
ClosingQuote(s, i) ==
    IF i > Len(s) \/ Ch(s, i) = "\\" THEN 0
    ELSE IF Ch(s, i) = "\"" THEN i
    ELSE ClosingQuote(s, i + 1)

ParseString(s, i) ==
    LET j == ClosingQuote(s, i + 1)
    IN  IF Ch(s, i) # "\"" \/ j = 0 THEN ParseFail
        ELSE ParseOk(PyStr(SubSeq(s, i + 1, j - 1)), j + 1)

RECURSIVE DigitsEnd(_, _)
DigitsEnd(s, i) == IF IsDigit(Ch(s, i)) THEN DigitsEnd(s, i + 1) ELSE i

RECURSIVE DigitsValue(_, _, _)
DigitsValue(s, i, j) ==
    IF j < i THEN 0 ELSE 10 * DigitsValue(s, i, j - 1) + DigitValue(Ch(s, j))

ParseNumber(s, i) ==
    LET neg == Ch(s, i) = "-"
        a == IF neg THEN i + 1 ELSE i
        b == DigitsEnd(s, a)
    IN  IF b = a \/ (Ch(s, a) = "0" /\ b > a + 1) \/ Ch(s, b) \in {".", "e", "E"}
        THEN ParseFail
        ELSE ParseOk(PyInt(IF neg THEN 0 - DigitsValue(s, a, b - 1)
                                  ELSE DigitsValue(s, a, b - 1)), b)

\* s[i:i+len(word)] == word
HasAt(s, i, word) ==
    1 <= i /\ i + Len(word) - 1 <= Len(s) /\ SubSeq(s, i, i + Len(word) - 1) = word

ParseLiteral(s, i) ==
    CASE HasAt(s, i, "true") -> ParseOk(PyBool(TRUE), i + 4)
      [] HasAt(s, i, "false") -> ParseOk(PyBool(FALSE), i + 5)
      [] HasAt(s, i, "null") -> ParseOk(PyNone, i + 4)
      [] OTHER -> ParseFail

\* d[key] = value on the items of a dict: a repeated key keeps its place.
DictSet(items, key, value) ==
    IF \E k \in 1..Len(items) : items[k][1] = key
    THEN [k \in 1..Len(items) |->
             IF items[k][1] = key THEN <<key, value>> ELSE items[k]]
    ELSE Append(items, <<key, value>>)

RECURSIVE ParseValue(_, _), ParseMembers(_, _, _), ParseElements(_, _, _)

ParseValue(s, i) ==
    LET j == SkipWs(s, i)
        c == Ch(s, j)
    IN  CASE c = "{" ->
               IF Ch(s, SkipWs(s, j + 1)) = "}"
               THEN ParseOk(PyDict(<<>>), SkipWs(s, j + 1) + 1)
               ELSE ParseMembers(s, j + 1, <<>>)
          [] c = "[" ->
               IF Ch(s, SkipWs(s, j + 1)) = "]"
               THEN ParseOk(PyList(<<>>), SkipWs(s, j + 1) + 1)
               ELSE ParseElements(s, j + 1, <<>>)
          [] c = "\"" -> ParseString(s, j)
          [] c = "-" \/ IsDigit(c) -> ParseNumber(s, j)
          [] OTHER -> ParseLiteral(s, j)

\* The members of an object from position i to its closing brace.
ParseMembers(s, i, items) ==
    LET key == ParseString(s, SkipWs(s, i))
        colon == SkipWs(s, key.pos)
        value == ParseValue(s, colon + 1)
        next == SkipWs(s, value.pos)
    IN  IF ~key.ok \/ Ch(s, colon) # ":" THEN ParseFail
        ELSE IF ~value.ok THEN ParseFail
        ELSE IF Ch(s, next) = ","
             THEN ParseMembers(s, next + 1, DictSet(items, key.val.v, value.val))
        ELSE IF Ch(s, next) = "}"
             THEN ParseOk(PyDict(DictSet(items, key.val.v, value.val)), next + 1)
        ELSE ParseFail

\* The elements of an array from position i to its closing bracket.
ParseElements(s, i, elems) ==
    LET value == ParseValue(s, i)
        next == SkipWs(s, value.pos)
    IN  IF ~value.ok THEN ParseFail
        ELSE IF Ch(s, next) = "," THEN ParseElements(s, next + 1, Append(elems, value.val))
        ELSE IF Ch(s, next) = "]" THEN ParseOk(PyList(Append(elems, value.val)), next + 1)
        ELSE ParseFail

\* json.loads(text): the value, or JSONDecodeError; TypeError when text is no str.
JsonLoads(text) ==
    IF text.py # "str" THEN Raise(Exc("TypeError", "the JSON object must be str", ""))
    ELSE LET r == ParseValue(text.v, 1)
         IN  IF r.ok /\ SkipWs(text.v, r.pos) > Len(text.v) THEN Return(r.val)
             ELSE Raise(Exc("JSONDecodeError", "", ""))

\* d.get(key), None when d is no dict or has no such key
DictGet(d, key) ==
    IF d.py = "dict" /\ \E k \in 1..Len(d.v) : d.v[k][1] = key
    THEN d.v[CHOOSE k \in 1..Len(d.v) : d.v[k][1] = key][2]
    ELSE PyNone

-----------------------------------------------------------------------------
(* Dispatcher: ContentProcessorFactory.                                    *)

\* kwargs.get(key, default), kwargs the sequence of its <<key, value>> items
Get(kw, key, default) ==
    IF \E k \in 1..Len(kw) : kw[k][1] = key
    THEN kw[CHOOSE k \in 1..Len(kw) : kw[k][1] = key][2]
    ELSE default

UnknownInputType(it) == Exc("ValueError", "Unknown input type: ", it)
NotAUserBio == ValueError("user_bio must be an instance of UserBio")

\* create_processor treating an unknown kind as text.
create_processor_defaulting(it, kw) ==
    CASE it = "image" -> ImageInit(Get(kw, "image_path", ""))
      [] it = "audio" -> AudioInit(Get(kw, "audio_path", ""))
      [] it = "pdf" -> PdfInit(Get(kw, "pdf_path", ""))
      [] it = "link" -> LinkInit(Get(kw, "link", ""))
      [] it = "topic" -> TopicInit(Get(kw, "topic", ""))
      [] it = "user_bio" ->
           IF Get(kw, "user_bio", PyNone).py # "UserBio" THEN Raise(NotAUserBio)
           ELSE UserBackgroundInit(Get(kw, "user_bio", PyNone))
      [] OTHER -> TextInit(Get(kw, "text", <<>>))

\* ContentProcessorFactory.create_processor(input_type, **kwargs)
create_processor(it, kw) ==
    CASE it = "text" -> TextInit(Get(kw, "text", <<>>))
      [] it = "image" -> ImageInit(Get(kw, "image_path", ""))
      [] it = "audio" -> AudioInit(Get(kw, "audio_path", ""))
      [] it = "pdf" -> PdfInit(Get(kw, "pdf_path", ""))
      [] it = "link" -> LinkInit(Get(kw, "link", ""))
      [] it = "topic" -> TopicInit(Get(kw, "topic", ""))
      [] it = "user_bio" ->
           IF Get(kw, "user_bio", PyNone).py # "UserBio" THEN Raise(NotAUserBio)
           ELSE UserBackgroundInit(Get(kw, "user_bio", PyNone))
      [] OTHER -> Raise(UnknownInputType(it))

\* processor._process() once its collaborator has answered with `answer`
\* (a Return or, when the collaborator itself failed, a Raise).
Process(self, answer) ==
    IF answer.tag = "raise" THEN answer
    ELSE CASE self.cls = "ProcessTextInput" ->
                TextProcess(self, TEXT_MIN_LENGTH, TEXT_MAX_LENGTH)
           [] self.cls = "ProcessImageInput" -> ImageProcess(answer.val)
           [] self.cls = "ProcessAudioInput" -> AudioProcess(answer.val)
           [] self.cls = "ProcessPDF" -> PdfProcess(answer.val)
           [] self.cls = "ProcessLink" -> LinkProcess(answer.val)
           [] self.cls = "ProcessTopic" -> TopicProcess(answer.val)
           [] self.cls = "ProcessUserBackground" -> UserBackgroundProcess(answer.val)

\* ContentProcessorFactory.process_content from the call of processor._process
\* on: the link strategy's list is joined, every other result is passed on.
process_content(it, self, answer) ==
    LET processed == Process(self, answer)
    IN  IF processed.tag = "raise" THEN processed
        ELSE IF it = "link"
        THEN IF Truthy(processed.val)
             THEN Return(PyStr(Join(<<10, 10>>, processed.val.v)))
             ELSE Return(PyStr(<<>>))
        ELSE processed

-----------------------------------------------------------------------------
(* Card generator and facade.                                              *)

FailedToParse(e) == Exc("ValueError", "Failed to parse response: ", e.type)
NoContent(it) ==
    Exc("ValueError", "Failed to process {input_type} input or no content was extracted", it)

\* Generate answering an empty dict when the response does not parse.
GenerateLenient(completion) ==
    IF completion.tag = "raise" THEN completion
    ELSE LET response == JsonLoads(completion.val)
         IN  IF response.tag = "raise" THEN Return(PyDict(<<>>))
             ELSE Return(response.val)

\* FlashCardGenerator._generate from the answer of chat.completions.create on:
\* completion is a Return of the message content, or a Raise of the client.
Generate(completion) ==
    IF completion.tag = "raise" THEN completion
    ELSE LET response == JsonLoads(completion.val)
         IN  IF response.tag = "raise" THEN Raise(FailedToParse(response.exc))
             ELSE Return(response.val)

\* CheckContent letting empty content through.
CheckContentSkipped(it, text) == Return(text)

\* FlashCardService.generate_from_input: `if not content: raise ValueError(...)`
CheckContent(it, text) == IF ~Truthy(text) THEN Raise(NoContent(it)) ELSE Return(text)

-----------------------------------------------------------------------------
(* The inputs of the model: requests and collaborator answers.             *)

\* Words a..b, word k being the one character 256 + k, separated by `sep`
\* and, when `closed`, followed by it.
WordRun(a, b, sep, closed) ==
    IF b < a THEN <<>>
    ELSE [i \in 1..(2 * (b - a + 1) - (IF closed THEN 0 ELSE 1)) |->
             IF i % 2 = 1 THEN 256 + a + (i \div 2) ELSE sep]
\* n words on one line, and n words one per line
Words(n) == WordRun(1, n, 32, FALSE)
Lines(n) == WordRun(1, n, 10, TRUE)

\* The word counts next to a limit of the code.
Around(limit) == {n \in (limit - Slack)..(limit + Slack) : n >= 0}

\* "far too short", blanks only, and texts at the limits of ProcessTextInput
TextInputs ==
    {<<102, 97, 114, 32, 116, 111, 111, 32, 115, 104, 111, 114, 116>>, <<32, 10, 32>>}
    \cup {Words(n) : n \in Around(TEXT_MIN_LENGTH) \cup Around(TEXT_MAX_LENGTH)}
    \cup {<<32>> \o Lines(TEXT_MIN_LENGTH)}

ImagePaths == {"notes.png", "notes.jpeg", "notes.jpg", "notes.gif", "notes.png.bak",
               "missing.png"}
AudioPaths == {"talk.mp3", "talk.wav", "talk.ogg", "missing.mp3"}
PdfPaths == {"doc.pdf", "doc.txt", "missing.pdf"}
Links == {"https://example.org/a", "http://example.org", "ftp://example.org",
          "example.org"}
Topics == {"photosynthesis"}
UserBios ==
    {[py |-> "UserBio", name |-> "Ada", age |-> 20, degree_name |-> "BSc",
      degree_year |-> 2, course_name |-> "Physics",
      interested_subjects |-> <<"optics">>],
     PyDict(<<<<"name", PyStr("Ada")>>>>)}

InputKinds == {"text", "image", "audio", "pdf", "link", "topic", "user_bio"}
UnknownKinds == {"video", "TEXT", ""}

\* Texts a collaborator may answer with: none, blanks, a few words, and
\* the counts next to the limits the strategies check.
ShortTexts == {<<>>, <<10>>} \cup {Words(n) : n \in Around(SHORT_MIN_WORDS)}
                \cup {<<9>> \o Lines(SHORT_MIN_WORDS)}
LongTexts == {Words(n) : n \in Around(LONG_MAX_WORDS)}

\* A collaborator that fails raises its own exception.
ServiceError == Exc("ServiceError", "the collaborator failed", "")

OcrAnswers == {Return(t) : t \in ShortTexts \cup {Words(LONG_MAX_WORDS + 1)}}
TranscribeAnswers ==
    {Return([text |-> t, language |-> l]) : t \in ShortTexts, l \in {"en", "fr"}}
EssayAnswers == {Return(t) : t \in ShortTexts \cup LongTexts}

\* Page j of p pages holding n words, one word per line.
PageOf(n, p, j) == WordRun(((j - 1) * n) \div p + 1, (j * n) \div p, 10, TRUE)
\* The same pages without the line ends, so that the last word of a page
\* runs into the first word of the next.
OpenPageOf(n, p, j) == WordRun(((j - 1) * n) \div p + 1, (j * n) \div p, 32, FALSE)
PdfDocuments ==
    {<<>>, << <<>>, <<>> >>, <<Lines(PDF_MAX_WORDS + 1)>>}
    \cup {<<Lines(n)>> : n \in Around(SHORT_MIN_WORDS)}
    \cup {[j \in 1..p |-> PageOf(n, p, j)] :
             n \in {SHORT_MIN_WORDS - 1} \cup Around(PDF_MAX_WORDS), p \in 2..MaxPages}
    \cup {[j \in 1..2 |-> OpenPageOf(n, 2, j)] :
             n \in {PDF_MAX_WORDS + 1, PDF_MAX_WORDS + 2}}
PdfAnswers == {Return(d) : d \in PdfDocuments}

\* crawler.arun_many(urls=[link]): one result for the URL, or none at all.
CrawlAnswers ==
    {Return(<<>>),
     Return(<<[success |-> FALSE, markdown |-> <<>>, error |-> "timeout"]>>),
     Return(<<[success |-> TRUE, markdown |-> <<>>, error |-> ""]>>),
     Return(<<[success |-> TRUE, markdown |-> Words(3), error |-> ""]>>),
     Return(<<[success |-> TRUE, markdown |-> Lines(LONG_MAX_WORDS + 1), error |-> ""]>>)}

\* What the collaborator of a strategy may answer.
Answers(cls) ==
    {Raise(ServiceError)} \cup
    CASE cls = "ProcessImageInput" -> OcrAnswers
      [] cls = "ProcessAudioInput" -> TranscribeAnswers
      [] cls = "ProcessPDF" -> PdfAnswers
      [] cls = "ProcessLink" -> CrawlAnswers
      [] cls \in {"ProcessTopic", "ProcessUserBackground"} -> EssayAnswers

\* Bodies the generation service may answer with.
CardJson == "{\"question\": \"Q\", \"answer\": \"A\", \"category\": null, \"importance\": 3}"
SetJson(cards, total) ==
    "{\"title\": \"T\", \"subject\": \"S\", \"cards\": [" \o cards
        \o "], \"total_cards\": " \o total \o ", \"difficulty_level\": \"Beginner\"}"
WellFormedBodies ==
    {SetJson(CardJson, "1"),                      \* one card, counted
     SetJson(CardJson \o ", " \o CardJson, "2"),  \* two cards, counted
     SetJson(CardJson, "5"),                      \* one card, five announced
     SetJson("", "0"),                            \* no card
     "{\"title\": \"T\"}",                        \* fields missing
     SetJson("{\"question\": \"Q\"}", "1"),      \* a card without answer
     "[]", "null", "7"}                           \* no object
MalformedBodies ==
    {"",                                          \* nothing
     "{\"title\": \"T\", \"cards\": [" \o CardJson,  \* cut short
     SetJson(CardJson \o ",", "1"),               \* a comma too many
     "Here are your cards: " \o SetJson(CardJson, "1"),
     SetJson(CardJson, "1") \o " Enjoy!"}
GenerationBodies == WellFormedBodies \cup MalformedBodies
GenerationAnswers ==
    {Raise(ServiceError), Return(PyNone)} \cup {Return(PyStr(b)) : b \in GenerationBodies}

-----------------------------------------------------------------------------
(* The request: FlashCardService(num_cards).generate_from_input(...).      *)

Unset == [py |-> "unset"]

\* int(s) of a str: surrounding whitespace, an optional sign, decimal digits.
InvalidLiteral == Exc("ValueError", "invalid literal for int() with base 10: ", "")
IntOf(s) ==
    LET a == SkipWs(s, 1)
        b == IF Ch(s, a) \in {"+", "-"} THEN a + 1 ELSE a
        c == DigitsEnd(s, b)
    IN  IF c = b \/ SkipWs(s, c) <= Len(s) THEN Raise(InvalidLiteral)
        ELSE Return(PyInt(IF Ch(s, a) = "-" THEN 0 - DigitsValue(s, b, c - 1)
                                            ELSE DigitsValue(s, b, c - 1)))

\* AskNumCards keeping an entry of 0.
AskNumCardsAllowingZero(entry) ==
    IF ~Truthy(entry) THEN DEFAULT_NUM_CARDS
    ELSE LET parsed == IntOf(entry.v)
         IN  IF parsed.tag = "raise" \/ parsed.val.v < 0
             THEN DEFAULT_NUM_CARDS
             ELSE parsed.val.v

\* The application's prompt for the number of cards: the count it passes to
\* FlashCardService for what the user typed.
AskNumCards(entry) ==
    IF ~Truthy(entry) THEN DEFAULT_NUM_CARDS
    ELSE LET parsed == IntOf(entry.v)
         IN  IF parsed.tag = "raise" \/ parsed.val.v <= 0
             THEN DEFAULT_NUM_CARDS
             ELSE parsed.val.v

\* What users type at the prompt.
NumCardsEntries ==
    {"", "abc", "0", "-2", ToString(MaxCards)}

\* os.getenv("FIREWORKS_API_KEY")
FIREWORKS_API_KEY == PyStr("fw-key")

\* The service is constructed by the application after its prompt, or as
\* FlashCardService() with no count (no entry).
Init ==
    /\ pc = "idle"
    /\ num_cards_input \in {Unset} \cup {PyStr(e) : e \in NumCardsEntries}
    /\ num_cards = IF num_cards_input = Unset
                   THEN DEFAULT_NUM_CARDS
                   ELSE AskNumCards(num_cards_input)
    /\ input_type = ""
    /\ kwargs = <<>>
    /\ processor = Unset
    /\ ext = Return(Unset)
    /\ content = Unset
    /\ gen = Return(Unset)
    /\ calls = <<>>
    /\ yields = 0
    /\ result = Unset
    /\ error = NoExc
    /\ api_key = PyNone
    /\ requests = <<>>
    /\ services = <<>>

\* Fail replacing every error by the facade's own.
FailReplaced(e) ==
    /\ pc' = "done"
    /\ error' = NoContent(input_type)
    /\ UNCHANGED result

\* The request ends by raising e.
Fail(e) ==
    /\ pc' = "done"
    /\ error' = e
    /\ UNCHANGED result

\* generate_from_input(it, **kw) is called and enters process_content.
Call(it, kw) ==
    /\ pc = "idle"
    /\ pc' = "create_processor"
    /\ input_type' = it
    /\ kwargs' = kw
    /\ UNCHANGED <<api_key, requests, services, num_cards_input, num_cards,
                   processor, ext, content, gen, calls, yields, result, error>>

\* The calls the model makes: each kind with its parameter and without it,
\* and unknown kinds with and without parameters.
Request ==
    \/ \E t \in Topics : Call("topic", <<<<"topic", t>>>>)
    \/ \E b \in UserBios : Call("user_bio", <<<<"user_bio", b>>>>)
    \/ \E l \in Links : Call("link", <<<<"link", l>>>>)
    \/ \E p \in ImagePaths : Call("image", <<<<"image_path", p>>>>)
    \/ \E p \in AudioPaths : Call("audio", <<<<"audio_path", p>>>>)
    \/ \E p \in PdfPaths : Call("pdf", <<<<"pdf_path", p>>>>)
    \/ \E t \in TextInputs : Call("text", <<<<"text", t>>>>)
    \/ \E k \in InputKinds \cup UnknownKinds : Call(k, <<>>)
    \/ \E k \in UnknownKinds : Call(k, <<<<"text", Words(TEXT_MIN_LENGTH)>>>>)
    \/ \E k \in UnknownKinds : Call(k, <<<<"image_path", "notes.png">>>>)

\* process_content: processor = create_processor(input_type, **kwargs).  The
\* audio strategy loads its transcription model in the constructor.
CreateProcessor ==
    /\ pc = "create_processor"
    /\ LET made == create_processor(input_type, kwargs)
       IN  IF made.tag = "raise"
           THEN Fail(made.exc) /\ UNCHANGED <<processor, calls>>
           ELSE /\ processor' = made.val
                /\ calls' = IF made.val.cls = "ProcessAudioInput"
                            THEN Append(calls, [svc |-> "whisper.load_model"])
                            ELSE calls
                /\ pc' = IF made.val.cls = "ProcessTextInput" THEN "validate" ELSE "process"
                /\ UNCHANGED <<result, error>>
    /\ UNCHANGED <<api_key, requests, services, num_cards_input, num_cards,
                   input_type, kwargs, ext, content, gen, yields>>

\* The collaborator each strategy calls in _process.
Collaborator(cls) ==
    CASE cls = "ProcessImageInput" -> [svc |-> "ocr"]
      [] cls = "ProcessAudioInput" -> [svc |-> "transcribe"]
      [] cls = "ProcessPDF" -> [svc |-> "pymupdf.open"]
      [] cls = "ProcessLink" -> [svc |-> "crawler.arun_many"]
      [] cls \in {"ProcessTopic", "ProcessUserBackground"} -> [svc |-> "essay"]

\* Collaborate suspending the request while the collaborator works.
CollaborateSuspending ==
    /\ pc = "process"
    /\ processor.cls # "ProcessLink"
    /\ \E a \in Answers(processor.cls) : ext' = a
    /\ api_key' = IF processor.cls = "ProcessImageInput" THEN FIREWORKS_API_KEY ELSE api_key
    /\ calls' = Append(calls, Collaborator(processor.cls))
    /\ yields' = yields + 1
    /\ pc' = "validate"
    /\ UNCHANGED <<requests, services, num_cards_input, num_cards, input_type,
                   kwargs, processor, content, gen, result, error>>

\* processor._process() of a synchronous strategy calls its collaborator,
\* which answers (a blocking call).
Collaborate ==
    /\ pc = "process"
    /\ processor.cls # "ProcessLink"
    /\ \E a \in Answers(processor.cls) : ext' = a
    /\ api_key' = IF processor.cls = "ProcessImageInput" THEN FIREWORKS_API_KEY ELSE api_key
    /\ calls' = Append(calls, Collaborator(processor.cls))
    /\ pc' = "validate"
    /\ UNCHANGED <<requests, services, num_cards_input, num_cards, input_type,
                   kwargs, processor, content, gen, yields, result, error>>

\* `await processor._process()` of the link strategy enters
\* `async with AsyncWebCrawler(...)`: the crawler's __aenter__ is awaited,
\* and the request suspends there or not; the crawler may fail to start.
CrawlerEnter ==
    /\ pc = "process"
    /\ processor.cls = "ProcessLink"
    /\ calls' = Append(calls, [svc |-> "crawler.__aenter__"])
    /\ \E suspensions \in {0, 1} : yields' = yields + suspensions
    /\ \/ pc' = "crawl" /\ UNCHANGED ext
       \/ pc' = "validate" /\ ext' = Raise(ServiceError)
    /\ UNCHANGED <<api_key, requests, services, num_cards_input, num_cards,
                   input_type, kwargs, processor, content, gen, result, error>>

\* `await crawler.arun_many(...)`: the crawl is started and the request
\* suspends.
CrawlAwait ==
    /\ pc = "crawl"
    /\ calls' = Append(calls, Collaborator(processor.cls))
    /\ yields' = yields + 1
    /\ pc' = "suspended"
    /\ UNCHANGED <<api_key, requests, services, num_cards_input, num_cards,
                   input_type, kwargs, processor, ext, content, gen, result,
                   error>>

\* The crawl answers and the request resumes.
CrawlResume ==
    /\ pc = "suspended"
    /\ \E a \in Answers(processor.cls) : ext' = a
    /\ pc' = "exit"
    /\ UNCHANGED <<api_key, requests, services, num_cards_input, num_cards,
                   input_type, kwargs, processor, content, gen, calls, yields,
                   result, error>>

\* The `async with` block is left, by `return content`, by running off its
\* end or by the crawl's exception: the crawler's __aexit__ is awaited, and
\* the request suspends there or not.
CrawlerExit ==
    /\ pc = "exit"
    /\ calls' = Append(calls, [svc |-> "crawler.__aexit__"])
    /\ \E suspensions \in {0, 1} : yields' = yields + suspensions
    /\ pc' = "validate"
    /\ UNCHANGED <<api_key, requests, services, num_cards_input, num_cards,
                   input_type, kwargs, processor, ext, content, gen, result,
                   error>>

\* Extract going on to the generation when the extraction has failed.
ExtractIgnoringFailure ==
    /\ pc = "validate"
    /\ LET extracted == process_content(input_type, processor, ext)
       IN  /\ content' = IF extracted.tag = "raise" THEN content ELSE extracted.val
           /\ pc' = "generate"
    /\ UNCHANGED <<api_key, requests, services, num_cards_input, num_cards,
                   input_type, kwargs, processor, ext, gen, calls, yields,
                   result, error>>

\* The rest of _process and of process_content, then the facade's check of
\* the content.
Extract ==
    /\ pc = "validate"
    /\ LET extracted == process_content(input_type, processor, ext)
           checked == CheckContent(input_type, extracted.val)
       IN  IF extracted.tag = "raise"
           THEN Fail(extracted.exc) /\ UNCHANGED content
           ELSE /\ content' = extracted.val
                /\ IF checked.tag = "raise"
                   THEN Fail(checked.exc)
                   ELSE pc' = "generate" /\ UNCHANGED <<result, error>>
    /\ UNCHANGED <<api_key, requests, services, num_cards_input, num_cards,
                   input_type, kwargs, processor, ext, gen, calls, yields>>

\* GenerateCards calling the generation service again when the call or the
\* parsing of its answer has failed.
GenerateCardsRetrying ==
    /\ pc = "generate"
    /\ \E a \in GenerationAnswers :
          /\ gen' = a
          /\ LET generated == Generate(a)
             IN  IF generated.tag = "raise"
                 THEN UNCHANGED <<pc, result, error>>
                 ELSE pc' = "done" /\ result' = generated.val /\ UNCHANGED error
    /\ calls' = Append(calls, [svc |-> "generation", num_cards |-> num_cards])
    /\ UNCHANGED <<api_key, requests, services, num_cards_input, num_cards,
                   input_type, kwargs, processor, ext, content, yields>>

\* self.generator._generate(content): one call of the generation service,
\* its answer parsed and returned.
GenerateCards ==
    /\ pc = "generate"
    /\ \E a \in GenerationAnswers :
          /\ gen' = a
          /\ LET generated == Generate(a)
             IN  IF generated.tag = "raise"
                 THEN Fail(generated.exc)
                 ELSE pc' = "done" /\ result' = generated.val /\ UNCHANGED error
    /\ calls' = Append(calls, [svc |-> "generation", num_cards |-> num_cards])
    /\ UNCHANGED <<api_key, requests, services, num_cards_input, num_cards,
                   input_type, kwargs, processor, ext, content, yields>>

\* The caller has the result or the error; the service is ready for the
\* next request.
Finish ==
    /\ pc = "done"
    /\ pc' = "idle"
    /\ input_type' = ""
    /\ kwargs' = <<>>
    /\ processor' = Unset
    /\ ext' = Return(Unset)
    /\ content' = Unset
    /\ gen' = Return(Unset)
    /\ calls' = <<>>
    /\ yields' = 0
    /\ result' = Unset
    /\ error' = NoExc
    /\ UNCHANGED <<api_key, requests, services, num_cards_input, num_cards>>

Next ==
    \/ Request
    \/ CreateProcessor
    \/ Collaborate
    \/ CrawlerEnter
    \/ CrawlAwait
    \/ CrawlResume
    \/ CrawlerExit
    \/ Extract
    \/ GenerateCards
    \/ Finish

Spec == Init /\ [][Next]_vars

-----------------------------------------------------------------------------
(* The error kinds of the specification, as the exceptions the code raises *)
(* for them, and the vocabulary of the properties.                         *)

InputError(e) == e.type = "AssertionError"
ValidationError(e) == e \in {TooShort, TooLong, NotEnglish}
ConfigurationError(e) == e.type = "ValueError" /\ e.msg = "Unknown input type: "
NoContentError(e) ==
    /\ e.type = "ValueError"
    /\ e.msg = "Failed to process {input_type} input or no content was extracted"
GenerationError(e) == e.type = "ValueError" /\ e.msg = "Failed to parse response: "

\* The number of whitespace-separated words of s: its word starts.
CountWords(s) ==
    Cardinality({i \in 1..Len(s) : ~IsSpace(s[i]) /\ (i = 1 \/ IsSpace(s[i - 1]))})

\* The strategy was constructed and its extraction has ended.
Extracted(cls) ==
    /\ pc \in {"generate", "done"}
    /\ processor # Unset
    /\ processor.cls = cls
\* The extraction has ended by returning text.
Returned(text) == content = PyStr(text)
\* The request has ended with an error before any content was returned.
FailedBeforeContent == pc = "done" /\ content = Unset /\ result = Unset
\* The generation service was called in this request.
GenerationCalled == \E i \in 1..Len(calls) : calls[i].svc = "generation"

-----------------------------------------------------------------------------
(* C1: the text strategy returns a text of 30 to 2000 words unchanged and  *)
(* fails with ValidationError on a text of fewer than 30 or more than 2000 *)
(* words.                                                                  *)
C1_TextBounds ==
    Extracted("ProcessTextInput") =>
        LET n == CountWords(processor.text)
        IN  IF 30 <= n /\ n <= 2000
            THEN Returned(processor.text)
            ELSE FailedBeforeContent /\ ValidationError(error)

\* A text of exactly 2000 words was returned.
C1_Witness ==
    /\ Extracted("ProcessTextInput")
    /\ CountWords(processor.text) = 2000
    /\ Returned(processor.text)

-----------------------------------------------------------------------------
(* C2 as stated: for image, audio, topic and user_bio, an answer of fewer  *)
(* than 10 words fails with ValidationError and an answer of at least 10   *)
(* words (at most 2000 for topic and user_bio) is returned.                *)
AnswerText == IF processor.cls = "ProcessAudioInput" THEN ext.val.text ELSE ext.val
ShortMinimumHolds(english) ==
    \A cls \in {"ProcessImageInput", "ProcessAudioInput", "ProcessTopic",
                "ProcessUserBackground"} :
        (Extracted(cls) /\ ext.tag = "return") =>
            LET n == CountWords(AnswerText)
                capped == cls \in {"ProcessTopic", "ProcessUserBackground"}
                foreign == cls = "ProcessAudioInput" /\ ext.val.language # "en"
            IN  /\ n < 10 => FailedBeforeContent /\ ValidationError(error)
                /\ (n >= 10 /\ (capped => n <= 2000) /\ (english => ~foreign))
                       => Returned(AnswerText)
C2_Original == ShortMinimumHolds(FALSE)

(* C2 amended: the same, an audio answer of at least 10 words being        *)
(* returned when its detected language is "en".                            *)
C2_Amended == ShortMinimumHolds(TRUE)

\* An English transcript of exactly 10 words was returned.
C2_Witness ==
    /\ Extracted("ProcessAudioInput")
    /\ ext.tag = "return"
    /\ ext.val.language = "en"
    /\ CountWords(ext.val.text) = 10
    /\ Returned(ext.val.text)

-----------------------------------------------------------------------------
(* C3: a transcript whose detected language is not "en" fails with         *)
(* ValidationError whatever its word count; no text is returned for it.    *)
C3_ForeignAudioFails ==
    (/\ Extracted("ProcessAudioInput")
     /\ ext.tag = "return"
     /\ ext.val.language # "en")
        => FailedBeforeContent /\ ValidationError(error) /\ ~GenerationCalled

\* A French transcript of more than 10 words was rejected.
C3_Witness ==
    /\ Extracted("ProcessAudioInput")
    /\ ext.tag = "return"
    /\ ext.val.language = "fr"
    /\ CountWords(ext.val.text) > 10
    /\ FailedBeforeContent
    /\ ValidationError(error)

-----------------------------------------------------------------------------
(* C4: a PDF of one page with fewer than 10 words fails with               *)
(* ValidationError; a PDF of more than one page whose concatenated text    *)
(* has more than 4000 words is returned as exactly 4000 words, the first   *)
(* 4000 words of the concatenation in order.                               *)
RECURSIVE Concatenated(_)
Concatenated(pages) ==
    IF pages = <<>> THEN <<>> ELSE Head(pages) \o Concatenated(Tail(pages))

C4_PdfLimits ==
    (Extracted("ProcessPDF") /\ ext.tag = "return") =>
        LET pages == ext.val
            whole == Concatenated(pages)
        IN  /\ (Len(pages) = 1 /\ CountWords(pages[1]) < 10)
                   => FailedBeforeContent /\ ValidationError(error)
            /\ (Len(pages) > 1 /\ CountWords(whole) > 4000)
                   => /\ content # Unset
                      /\ content.py = "str"
                      /\ CountWords(content.v) = 4000
                      /\ Split(content.v) = SubSeq(Split(whole), 1, 4000)

\* A document of several pages and more than 4000 words was cut to 4000.
C4_Witness ==
    /\ Extracted("ProcessPDF")
    /\ ext.tag = "return"
    /\ Len(ext.val) > 1
    /\ CountWords(Concatenated(ext.val)) > 4000
    /\ content # Unset
    /\ CountWords(content.v) = 4000

-----------------------------------------------------------------------------
(* C5: an input kind outside the seven known kinds fails with              *)
(* ConfigurationError; nothing is returned for it and no collaborator is   *)
(* called.                                                                 *)
C5_UnknownKindFails ==
    (pc # "idle" /\ input_type \notin InputKinds) =>
        /\ processor = Unset /\ content = Unset /\ result = Unset
        /\ calls = <<>>
        /\ \/ pc = "create_processor"
           \/ pc = "done" /\ ConfigurationError(error) /\ error.arg = input_type

\* The request for kind "video" has failed.
C5_Witness ==
    /\ pc = "done"
    /\ input_type = "video"
    /\ ConfigurationError(error)

-----------------------------------------------------------------------------
(* C6: the generation service is called only from a state in which the     *)
(* extraction has returned non-empty content; a step that raises an error  *)
(* before that ends the request with no generation call and no result.     *)
C6_GenerationAfterContent ==
    [][/\ (~GenerationCalled /\ GenerationCalled')
              => (pc = "generate" /\ content # Unset /\ Truthy(content))
       /\ (pc \in {"create_processor", "process", "crawl", "suspended", "exit", "validate"}
              /\ error' # NoExc)
              => (pc' = "done" /\ ~GenerationCalled' /\ result' = Unset)]_vars

\* The text "far too short" has failed with ValidationError, no call made.
C6_Witness ==
    /\ pc = "done"
    /\ input_type = "text"
    /\ CountWords(Get(kwargs, "text", <<>>)) = 3
    /\ error = TooShort
    /\ calls = <<>>

-----------------------------------------------------------------------------
(* C7: an image, audio, pdf or link input that violates the precondition   *)
(* of its kind fails with InputError at construction, and no collaborator  *)
(* is called in that request.                                              *)
ViolatesPrecondition ==
    \/ /\ input_type = "image"
       /\ LET p == Get(kwargs, "image_path", "")
          IN  ~(PathExists(p) /\ (EndsWith(p, ".png") \/ EndsWith(p, ".jpeg")))
    \/ /\ input_type = "audio"
       /\ LET p == Get(kwargs, "audio_path", "")
          IN  ~(PathExists(p) /\ (EndsWith(p, ".mp3") \/ EndsWith(p, ".wav")))
    \/ /\ input_type = "pdf"
       /\ LET p == Get(kwargs, "pdf_path", "")
          IN  ~(PathExists(p) /\ EndsWith(p, ".pdf"))
    \/ /\ input_type = "link"
       /\ ~StartsWith(Get(kwargs, "link", ""), "http")

C7_PreconditionFailsFirst ==
    (pc \notin {"idle", "create_processor"} /\ ViolatesPrecondition) =>
        /\ pc = "done"
        /\ InputError(error)
        /\ processor = Unset /\ content = Unset /\ result = Unset
        /\ calls = <<>>

\* The image "notes.gif", which exists, has failed with InputError.
C7_Witness ==
    /\ pc = "done"
    /\ input_type = "image"
    /\ Get(kwargs, "image_path", "") = "notes.gif"
    /\ InputError(error)
    /\ calls = <<>>

-----------------------------------------------------------------------------
(* C8: when the crawl answers no result or a failure for the URL, the link *)
(* strategy raises nothing, the dispatcher returns the empty text and the  *)
(* facade fails with NoContentError without a generation call; whenever    *)
(* the extraction of any kind returns empty text the facade fails with     *)
(* NoContentError.                                                         *)
C8_EmptyContentFails ==
    /\ (/\ Extracted("ProcessLink")
        /\ ext.tag = "return"
        /\ (Len(ext.val) = 0 \/ ~ext.val[1].success))
           => content = PyStr(<<>>)
    /\ (content # Unset /\ ~Truthy(content))
           => /\ pc = "done"
              /\ NoContentError(error) /\ error.arg = input_type
              /\ result = Unset
              /\ ~GenerationCalled

\* The only URL's crawl has failed and the request ended with NoContentError.
C8_Witness ==
    /\ Extracted("ProcessLink")
    /\ ext.tag = "return"
    /\ Len(ext.val) = 1
    /\ ~ext.val[1].success
    /\ content = PyStr(<<>>)
    /\ NoContentError(error)

-----------------------------------------------------------------------------
(* C9: when the response of the generation service is not valid JSON, the  *)
(* request fails with GenerationError and returns no value.                *)
C9_MalformedResponseFails ==
    (/\ pc = "done"
     /\ gen.tag = "return"
     /\ gen.val.py = "str"
     /\ gen.val.v \in MalformedBodies)
        => GenerationError(error) /\ result = Unset

\* A response cut short has failed with GenerationError.
C9_Witness ==
    /\ pc = "done"
    /\ gen = Return(PyStr("{\"title\": \"T\", \"cards\": [" \o CardJson))
    /\ GenerationError(error)
    /\ result = Unset

-----------------------------------------------------------------------------
(* C10 as stated: every value the card generator returns has a non-empty   *)
(* list of cards and a total_cards equal to the length of that list.       *)
C10_CardsCounted ==
    (pc = "done" /\ error = NoExc) =>
        LET cards == DictGet(result, "cards")
        IN  /\ cards.py = "list"
            /\ Len(cards.v) > 0
            /\ DictGet(result, "total_cards") = PyInt(Len(cards.v))

-----------------------------------------------------------------------------
(* C11 as stated: whenever the collaborator of a strategy has answered,    *)
(* the strategy's _process either returns a non-empty text whose word      *)
(* count is within the bounds of its kind or raises an InputError or a     *)
(* ValidationError; it returns no empty text, no value that is not a text, *)
(* no text outside the bounds, and raises no other error.                  *)
WithinBounds(cls, n) ==
    CASE cls = "ProcessTextInput" -> TEXT_MIN_LENGTH <= n /\ n <= TEXT_MAX_LENGTH
      [] cls \in {"ProcessImageInput", "ProcessAudioInput"} -> SHORT_MIN_WORDS <= n
      [] cls \in {"ProcessTopic", "ProcessUserBackground"} ->
            SHORT_MIN_WORDS <= n /\ n <= LONG_MAX_WORDS
      [] cls = "ProcessPDF" -> n <= PDF_MAX_WORDS
      [] cls = "ProcessLink" -> TRUE

\* What processor._process() has answered in this request.
Processed == Process(processor, ext)

C11_TwoOutcomes ==
    (pc \in {"generate", "done"} /\ processor # Unset /\ ext.tag = "return") =>
        IF Processed.tag = "return"
        THEN /\ Processed.val.py = "str"
             /\ Len(Processed.val.v) > 0
             /\ WithinBounds(processor.cls, CountWords(Processed.val.v))
        ELSE InputError(Processed.exc) \/ ValidationError(Processed.exc)

-----------------------------------------------------------------------------
(* C12: the card count of the service, and the count sent with every       *)
(* generation call, is a positive integer; it is 5 when the service was    *)
(* constructed without a count, and 5 when the entry typed at the          *)
(* application's prompt is empty, not a number, zero or negative.          *)
NotPositiveEntry(entry) ==
    \/ Len(entry.v) = 0
    \/ IntOf(entry.v).tag = "raise"
    \/ IntOf(entry.v).val.v <= 0

C12_PositiveCount ==
    /\ num_cards \in Nat \ {0}
    /\ num_cards_input = Unset => num_cards = 5
    /\ (num_cards_input # Unset /\ NotPositiveEntry(num_cards_input)) => num_cards = 5
    /\ \A i \in 1..Len(calls) :
          calls[i].svc = "generation" =>
              calls[i].num_cards = num_cards /\ calls[i].num_cards > 0

\* The entry "0" was replaced and the generation was asked for 5 cards.
C12_Witness ==
    /\ num_cards_input = PyStr("0")
    /\ pc = "done"
    /\ \E i \in 1..Len(calls) : calls[i].svc = "generation" /\ calls[i].num_cards = 5

-----------------------------------------------------------------------------
(* C13 as stated: when the response of the generation service is valid     *)
(* JSON that is no FlashCardSet (a field of the set or of a card missing,  *)
(* or no object at all), the request fails with GenerationError and        *)
(* returns no value.                                                       *)
HasField(d, key) == d.py = "dict" /\ \E k \in 1..Len(d.v) : d.v[k][1] = key
IsFlashCard(c) == \A f \in {"question", "answer", "importance"} : HasField(c, f)
IsFlashCardSet(x) ==
    /\ \A f \in {"title", "subject", "cards", "total_cards", "difficulty_level"} :
          HasField(x, f)
    /\ DictGet(x, "cards").py = "list"
    /\ \A i \in 1..Len(DictGet(x, "cards").v) : IsFlashCard(DictGet(x, "cards").v[i])

C13_WrongShapeFails ==
    (/\ pc = "done"
     /\ gen.tag = "return"
     /\ JsonLoads(gen.val).tag = "return"
     /\ ~IsFlashCardSet(JsonLoads(gen.val).val))
        => GenerationError(error) /\ result = Unset

-----------------------------------------------------------------------------
(* C14 as stated: a PDF of one page whose text has at least 10 words is    *)
(* returned as that page's text, whole; a PDF of one page is rejected only *)
(* when its text has fewer than 10 words.                                  *)
C14_SinglePageReturned ==
    (Extracted("ProcessPDF") /\ ext.tag = "return" /\ Len(ext.val) = 1) =>
        IF CountWords(ext.val[1]) >= 10
        THEN Returned(ext.val[1])
        ELSE FailedBeforeContent /\ ValidationError(error)

-----------------------------------------------------------------------------
(* C15: a request calls the generation service at most once; it has called *)
(* it exactly once when it ends after an extraction that returned          *)
(* non-empty content, also when that call failed or its answer did not     *)
(* parse, and not at all when it ends without such content.                *)
GenerationCalls == Cardinality({i \in 1..Len(calls) : calls[i].svc = "generation"})
HasContent == content # Unset /\ Truthy(content)

C15_OneGenerationCall ==
    /\ GenerationCalls <= 1
    /\ pc = "done" => GenerationCalls = (IF HasContent THEN 1 ELSE 0)
    /\ pc = "generate" => HasContent /\ GenerationCalls = 0

\* The only generation call has failed and the request ended with its error.
C15_Witness ==
    /\ pc = "done"
    /\ HasContent
    /\ gen = Raise(ServiceError)
    /\ error = ServiceError
    /\ GenerationCalls = 1

-----------------------------------------------------------------------------
(* C16: an error raised by the construction of the strategy, by its        *)
(* _process (its collaborator's error included) or by the generator ends   *)
(* the request with that very error, type and message unchanged, and no    *)
(* result; a crawl that failed for the URL raises nothing in the link      *)
(* strategy.                                                               *)
C16_ErrorsReachCaller ==
    [][/\ (pc = "create_processor" /\ create_processor(input_type, kwargs).tag = "raise")
              => /\ pc' = "done"
                 /\ error' = create_processor(input_type, kwargs).exc
                 /\ result' = Unset
       /\ (pc = "validate" /\ Process(processor, ext).tag = "raise")
              => /\ pc' = "done"
                 /\ error' = Process(processor, ext).exc
                 /\ result' = Unset
       /\ (pc = "generate" /\ Generate(gen').tag = "raise")
              => /\ pc' = "done"
                 /\ error' = Generate(gen').exc
                 /\ result' = Unset
       /\ (/\ pc = "validate"
           /\ processor.cls = "ProcessLink"
           /\ ext.tag = "return"
           /\ Len(ext.val) > 0
           /\ ~ext.val[1].success)
              => Process(processor, ext) = Return(PyList(<<>>))]_vars

\* The essay of more than 2000 words was rejected by the topic strategy and
\* the caller has that error.
C16_Witness ==
    /\ pc = "done"
    /\ processor # Unset
    /\ processor.cls = "ProcessTopic"
    /\ ext.tag = "return"
    /\ Process(processor, ext) = Raise(TooLong)
    /\ error = TooLong

-----------------------------------------------------------------------------
(* C17 as stated: a request suspends at most once, only when its kind is   *)
(* link and only during the crawl; the generation call never suspends.     *)
C17_Original ==
    /\ yields <= 1
    /\ yields = 1 => input_type = "link"

(* C17 amended: a request suspends only when its kind is link and only at  *)
(* an await of the link strategy's _process: entering the crawler's        *)
(* context, the crawl, leaving the context; so at most three times.  A     *)
(* request of another kind never suspends, and no generation call does.    *)
C17_Amended ==
    /\ [](/\ yields <= 3
          /\ yields > 0 => input_type = "link")
    /\ [][yields' > yields =>
              /\ input_type = "link"
              /\ processor.cls = "ProcessLink"
              /\ pc \in {"process", "crawl", "exit"}
              /\ yields' = yields + 1
              /\ GenerationCalled' = GenerationCalled]_vars

\* A link request has ended after suspending at each of the three awaits,
\* and its generation call was made.
C17_Witness ==
    /\ pc = "done"
    /\ input_type = "link"
    /\ yields = 3
    /\ GenerationCalled

-----------------------------------------------------------------------------
(* Two requests running concurrently, on one FlashCardService or on two.   *)
(* Each request has its own frame (the fields of its record); the          *)
(* requests share the services' card counts and the module attribute       *)
(* fireworks.client.api_key.  A request's steps are those of the single    *)
(* request above, and steps of the two requests interleave freely.         *)

RequestIds == {1, 2}

\* The variables of the single request, which stays idle here.
single ==
    <<pc, num_cards_input, num_cards, input_type, kwargs, processor, ext, content,
      gen, calls, yields, result, error>>

NewRequest ==
    [pc |-> "idle", service |-> 1, input_type |-> "", kwargs |-> <<>>,
     processor |-> Unset, ext |-> Return(Unset), content |-> Unset,
     gen |-> Return(Unset), calls |-> <<>>, result |-> Unset, error |-> NoExc]

\* FlashCardService() and FlashCardService(num_cards=MaxCards)
ServiceCounts == <<DEFAULT_NUM_CARDS, MaxCards>>

InitConcurrent ==
    /\ pc = "idle"
    /\ num_cards_input = Unset
    /\ num_cards = DEFAULT_NUM_CARDS
    /\ input_type = ""
    /\ kwargs = <<>>
    /\ processor = Unset
    /\ ext = Return(Unset)
    /\ content = Unset
    /\ gen = Return(Unset)
    /\ calls = <<>>
    /\ yields = 0
    /\ result = Unset
    /\ error = NoExc
    /\ api_key \in {PyNone, FIREWORKS_API_KEY}
    /\ requests = [i \in RequestIds |-> NewRequest]
    /\ services = ServiceCounts

\* What the collaborators answer to the concurrent requests.
ConcurrentAnswers(cls) ==
    CASE cls = "ProcessImageInput" ->
            {Raise(ServiceError), Return(Words(SHORT_MIN_WORDS))}
      [] cls = "ProcessLink" ->
            {Raise(ServiceError),
             Return(<<[success |-> FALSE, markdown |-> <<>>, error |-> "timeout"]>>),
             Return(<<[success |-> TRUE, markdown |-> Words(3), error |-> ""]>>)}
      [] cls = "ProcessTopic" ->
            {Return(Words(SHORT_MIN_WORDS - 1)), Return(Words(SHORT_MIN_WORDS + 1))}
      [] OTHER -> {Raise(ServiceError)}
ConcurrentGenerationAnswers ==
    {Raise(ServiceError), Return(PyStr("")), Return(PyStr(SetJson(CardJson, "1")))}

\* Request i calls generate_from_input(it, **kw) of service s.
CallOf(i, s, it, kw) ==
    /\ requests[i].pc = "idle"
    /\ requests' = [requests EXCEPT ![i] =
                       [@ EXCEPT !.pc = "create_processor", !.service = s,
                                 !.input_type = it, !.kwargs = kw]]
    /\ UNCHANGED <<single, api_key, services>>

ConcurrentCall ==
    \E i \in RequestIds : \E s \in 1..i :
        \/ CallOf(i, s, "topic", <<<<"topic", "photosynthesis">>>>)
        \/ CallOf(i, s, "link", <<<<"link", "https://example.org/a">>>>)
        \/ \E p \in {"notes.png", "notes.gif"} : CallOf(i, s, "image", <<<<"image_path", p>>>>)
        \/ CallOf(i, s, "text", <<<<"text", Words(TEXT_MIN_LENGTH)>>>>)
        \/ CallOf(i, s, "video", <<>>)

ConcurrentCreateProcessor ==
    \E i \in RequestIds :
        /\ requests[i].pc = "create_processor"
        /\ LET made == create_processor(requests[i].input_type, requests[i].kwargs)
           IN  requests' = [requests EXCEPT ![i] =
                   IF made.tag = "raise"
                   THEN [@ EXCEPT !.pc = "done", !.error = made.exc]
                   ELSE [@ EXCEPT !.processor = made.val,
                                  !.pc = IF made.val.cls = "ProcessTextInput"
                                         THEN "validate" ELSE "process"]]
        /\ UNCHANGED <<single, api_key, services>>

\* The image strategy sets fireworks.client.api_key before its call.
ConcurrentCollaborate ==
    \E i \in RequestIds :
        /\ requests[i].pc = "process"
        /\ requests[i].processor.cls # "ProcessLink"
        /\ \E a \in ConcurrentAnswers(requests[i].processor.cls) :
              requests' = [requests EXCEPT ![i] =
                  [@ EXCEPT !.pc = "validate", !.ext = a,
                            !.calls = Append(@, Collaborator(requests[i].processor.cls))]]
        /\ api_key' = IF requests[i].processor.cls = "ProcessImageInput"
                      THEN FIREWORKS_API_KEY ELSE api_key
        /\ UNCHANGED <<single, services>>

ConcurrentCrawlerEnter ==
    \E i \in RequestIds :
        /\ requests[i].pc = "process"
        /\ requests[i].processor.cls = "ProcessLink"
        /\ \/ requests' = [requests EXCEPT ![i] =
                  [@ EXCEPT !.pc = "crawl",
                            !.calls = Append(@, [svc |-> "crawler.__aenter__"])]]
           \/ requests' = [requests EXCEPT ![i] =
                  [@ EXCEPT !.pc = "validate", !.ext = Raise(ServiceError),
                            !.calls = Append(@, [svc |-> "crawler.__aenter__"])]]
        /\ UNCHANGED <<single, api_key, services>>

ConcurrentCrawlAwait ==
    \E i \in RequestIds :
        /\ requests[i].pc = "crawl"
        /\ requests' = [requests EXCEPT ![i] =
               [@ EXCEPT !.pc = "suspended",
                         !.calls = Append(@, Collaborator(requests[i].processor.cls))]]
        /\ UNCHANGED <<single, api_key, services>>

ConcurrentCrawlResume ==
    \E i \in RequestIds :
        /\ requests[i].pc = "suspended"
        /\ \E a \in ConcurrentAnswers(requests[i].processor.cls) :
              requests' = [requests EXCEPT ![i] = [@ EXCEPT !.pc = "exit", !.ext = a]]
        /\ UNCHANGED <<single, api_key, services>>

ConcurrentCrawlerExit ==
    \E i \in RequestIds :
        /\ requests[i].pc = "exit"
        /\ requests' = [requests EXCEPT ![i] =
               [@ EXCEPT !.pc = "validate",
                         !.calls = Append(@, [svc |-> "crawler.__aexit__"])]]
        /\ UNCHANGED <<single, api_key, services>>

ConcurrentExtract ==
    \E i \in RequestIds :
        /\ requests[i].pc = "validate"
        /\ LET r == requests[i]
               extracted == process_content(r.input_type, r.processor, r.ext)
               checked == CheckContent(r.input_type, extracted.val)
           IN  requests' = [requests EXCEPT ![i] =
                   IF extracted.tag = "raise"
                   THEN [@ EXCEPT !.pc = "done", !.error = extracted.exc]
                   ELSE IF checked.tag = "raise"
                   THEN [@ EXCEPT !.pc = "done", !.content = extracted.val,
                                  !.error = checked.exc]
                   ELSE [@ EXCEPT !.pc = "generate", !.content = extracted.val]]
        /\ UNCHANGED <<single, api_key, services>>

\* Request i asking for cards from the content the other request extracted.
GenerateCardsOfSharedContent(i) ==
    /\ requests[i].pc = "generate"
    /\ \E a \in ConcurrentGenerationAnswers :
          LET generated == Generate(a)
              other == requests[3 - i].content
              sent == [svc |-> "generation",
                       num_cards |-> services[requests[i].service],
                       content |-> IF other # Unset THEN other ELSE requests[i].content]
          IN  requests' = [requests EXCEPT ![i] =
                  IF generated.tag = "raise"
                  THEN [@ EXCEPT !.pc = "done", !.gen = a, !.error = generated.exc,
                                 !.calls = Append(@, sent)]
                  ELSE [@ EXCEPT !.pc = "done", !.gen = a, !.result = generated.val,
                                 !.calls = Append(@, sent)]]
    /\ UNCHANGED <<single, api_key, services>>

\* self.generator._generate(content) of request i: the prompt is made of the
\* request's content and of its service's card count.
GenerateCardsOf(i) ==
    /\ requests[i].pc = "generate"
    /\ \E a \in ConcurrentGenerationAnswers :
          LET generated == Generate(a)
              sent == [svc |-> "generation",
                       num_cards |-> services[requests[i].service],
                       content |-> requests[i].content]
          IN  requests' = [requests EXCEPT ![i] =
                  IF generated.tag = "raise"
                  THEN [@ EXCEPT !.pc = "done", !.gen = a, !.error = generated.exc,
                                 !.calls = Append(@, sent)]
                  ELSE [@ EXCEPT !.pc = "done", !.gen = a, !.result = generated.val,
                                 !.calls = Append(@, sent)]]
    /\ UNCHANGED <<single, api_key, services>>

ConcurrentGenerateCards == \E i \in RequestIds : GenerateCardsOf(i)

NextConcurrent ==
    \/ ConcurrentCall
    \/ ConcurrentCreateProcessor
    \/ ConcurrentCollaborate
    \/ ConcurrentCrawlerEnter
    \/ ConcurrentCrawlAwait
    \/ ConcurrentCrawlResume
    \/ ConcurrentCrawlerExit
    \/ ConcurrentExtract
    \/ ConcurrentGenerateCards

SpecConcurrent == InitConcurrent /\ [][NextConcurrent]_vars

-----------------------------------------------------------------------------
(* C18.  What a request answers when it runs alone: the composition of     *)
(* the dispatcher, the content check and the generator on its arguments    *)
(* and on what its collaborators answered.                                 *)
AloneContent(r) ==
    process_content(r.input_type, create_processor(r.input_type, r.kwargs).val, r.ext)
AloneOutcome(r) ==
    LET made == create_processor(r.input_type, r.kwargs)
        extracted == AloneContent(r)
        checked == CheckContent(r.input_type, extracted.val)
    IN  IF made.tag = "raise" THEN made
        ELSE IF extracted.tag = "raise" THEN extracted
        ELSE IF checked.tag = "raise" THEN checked
        ELSE Generate(r.gen)

\* Every request that has ended has the result or the error it has alone,
\* its generation call was made with its own content and with the card
\* count its service was constructed with, and no service's count has
\* changed.
SameAsAlone ==
    /\ services = ServiceCounts
    /\ \A i \in RequestIds :
          LET r == requests[i]
          IN  r.pc = "done" =>
                /\ IF AloneOutcome(r).tag = "raise"
                   THEN r.error = AloneOutcome(r).exc /\ r.result = Unset
                   ELSE r.result = AloneOutcome(r).val /\ r.error = NoExc
                /\ \A k \in 1..Len(r.calls) :
                      r.calls[k].svc = "generation" =>
                          /\ r.calls[k].content = AloneContent(r).val
                          /\ r.calls[k].num_cards = ServiceCounts[r.service]

====
